---- MODULE Spec2Model ----
(***************************************************************************)
(* Persona JSON Generator (src/app.py).                                    *)
(*                                                                         *)
(* Three parts of the program are modelled:                                *)
(*   - detect_artifact_type, the filename classifier (SpecClassify);       *)
(*   - clean_dataframe / convert_to_compact_array, the normalizer          *)
(*     (SpecNormalize);                                                    *)
(*   - the "Generate JSON" handler that loops over the uploaded files and  *)
(*     builds persona_json (Spec).                                         *)
(*                                                                         *)
(* Python strings are sequences of one-character strings, so that lower(), *)
(* replace(), split(), re.sub(), endswith(), `in`, int() and str() are     *)
(* computed character by character.                                        *)
(***************************************************************************)
EXTENDS Integers, Sequences, FiniteSets

VARIABLES
    filename,        \* detect_artifact_type: its argument
    artifact_type,   \* detect_artifact_type: its return value (NoValue before the call)
    df,              \* the DataFrame handed to convert_to_compact_array
    df_clean,        \* clean_dataframe's return value (NoValue before the call)
    records,         \* convert_to_compact_array's return value
    norm_state,      \* "input", "returned" or "raised"
    artifact_files,  \* the uploaded files, in upload order
    idx,             \* position of the for loop of the Generate JSON handler
    persona_json,    \* the dict being built, as a sequence of [key, value] items
    emitted,         \* [shown, document]: the document behind json_str, the
                     \* preview and the downloads, once they are shown
    loaded,          \* the positions of the files reported "Loaded", in order
    pc               \* "loop", "emitted" or "error"

cvars == <<filename, artifact_type>>
nvars == <<df, df_clean, records, norm_state>>
rvars == <<artifact_files, idx, persona_json, emitted, loaded, pc>>
vars == <<filename, artifact_type, df, df_clean, records, norm_state,
          artifact_files, idx, persona_json, emitted, loaded, pc>>

NoValue == <<"<none>">>
NoDocument == [shown |-> FALSE, document |-> <<>>]

(***************************************************************************)
(* Bounds of the model.                                                    *)
(***************************************************************************)
MaxParts == 3
MaxCols == 2
MaxRows == 2
MaxFiles == 3

(***************************************************************************)
(* Strings.                                                                *)
(***************************************************************************)
UpperToLower ==
    [A |-> "a", B |-> "b", C |-> "c", D |-> "d", E |-> "e", F |-> "f", G |-> "g",
     H |-> "h", I |-> "i", J |-> "j", K |-> "k", L |-> "l", M |-> "m", N |-> "n",
     O |-> "o", P |-> "p", Q |-> "q", R |-> "r", S |-> "s", T |-> "t", U |-> "u",
     V |-> "v", W |-> "w", X |-> "x", Y |-> "y", Z |-> "z"]

LowerLetters == {UpperToLower[c] : c \in DOMAIN UpperToLower}
Digits == {"0", "1", "2", "3", "4", "5", "6", "7", "8", "9"}

\* str.lower()
lower(s) ==
    [i \in 1..Len(s) |-> IF s[i] \in DOMAIN UpperToLower THEN UpperToLower[s[i]] ELSE s[i]]

\* s[i:i+len(pat)] == pat
MatchesAt(s, pat, i) ==
    /\ i + Len(pat) - 1 <= Len(s)
    /\ \A j \in 1..Len(pat) : s[i + j - 1] = pat[j]

\* pat in s
Contains(s, pat) == \E i \in 1..(Len(s) - Len(pat) + 1) : MatchesAt(s, pat, i)

\* s.endswith(pat)
EndsWith(s, pat) == Len(s) >= Len(pat) /\ MatchesAt(s, pat, Len(s) - Len(pat) + 1)

Drop(s, n) == SubSeq(s, n + 1, Len(s))

\* s.replace(pat, ''): every non-overlapping occurrence, left to right
RECURSIVE RemoveAll(_, _)
RemoveAll(s, pat) ==
    IF Len(s) < Len(pat) THEN s
    ELSE IF MatchesAt(s, pat, 1) THEN RemoveAll(Drop(s, Len(pat)), pat)
    ELSE <<s[1]>> \o RemoveAll(Tail(s), pat)

\* s.split(sep)[-1]: what follows the last separator of the left-to-right split
RECURSIVE LastSplitPart(_, _)
LastSplitPart(s, sep) ==
    IF ~Contains(s, sep) THEN s
    ELSE LET first == CHOOSE i \in 1..Len(s) :
                          /\ MatchesAt(s, sep, i)
                          /\ \A j \in 1..(i - 1) : ~MatchesAt(s, sep, j)
         IN LastSplitPart(Drop(s, first + Len(sep) - 1), sep)

\* re.sub(r'[^a-z0-9_]', '_', s)
Sanitize(s) ==
    [i \in 1..Len(s) |-> IF s[i] \in LowerLetters \cup Digits \cup {"_"} THEN s[i] ELSE "_"]

(***************************************************************************)
(* detect_artifact_type                                                    *)
(***************************************************************************)
K_contacts == <<"c","o","n","t","a","c","t","s">>
K_calendar == <<"c","a","l","e","n","d","a","r">>
K_email == <<"e","m","a","i","l">>
K_messages == <<"m","e","s","s","a","g","e","s">>
K_notes == <<"n","o","t","e","s">>
K_llm_convos == <<"l","l","m","_","c","o","n","v","o","s">>
K_conversations == <<"c","o","n","v","e","r","s","a","t","i","o","n","s">>
K_health_sleep == <<"h","e","a","l","t","h","_","s","l","e","e","p">>
K_health_activities == <<"h","e","a","l","t","h","_","a","c","t","i","v","i","t","i","e","s">>
K_health_nutrition == <<"h","e","a","l","t","h","_","n","u","t","r","i","t","i","o","n">>
K_sleep == <<"s","l","e","e","p">>
K_activities == <<"a","c","t","i","v","i","t","i","e","s">>
K_nutrition == <<"n","u","t","r","i","t","i","o","n">>
DotCsv == <<".","c","s","v">>
Dash == <<" ","-"," ">>

\* the dict type_mappings, in insertion order
type_mappings ==
    << [keyword |-> K_contacts,          json_key |-> K_contacts],
       [keyword |-> K_calendar,          json_key |-> K_calendar],
       [keyword |-> K_email,             json_key |-> K_email],
       [keyword |-> K_messages,          json_key |-> K_messages],
       [keyword |-> K_notes,             json_key |-> K_notes],
       [keyword |-> K_llm_convos,        json_key |-> K_conversations],
       [keyword |-> K_conversations,     json_key |-> K_conversations],
       [keyword |-> K_health_sleep,      json_key |-> K_health_sleep],
       [keyword |-> K_health_activities, json_key |-> K_health_activities],
       [keyword |-> K_health_nutrition,  json_key |-> K_health_nutrition],
       [keyword |-> K_sleep,             json_key |-> K_health_sleep],
       [keyword |-> K_activities,        json_key |-> K_health_activities],
       [keyword |-> K_nutrition,         json_key |-> K_health_nutrition] >>

\* the fallback: lines 93-100
FallbackName(name) ==
    LET base_name == lower(RemoveAll(name, DotCsv))
        last_part == IF Contains(base_name, Dash)
                     THEN LastSplitPart(base_name, Dash)
                     ELSE base_name
    IN Sanitize(last_part)

\* a mutated loop: the last matching keyword of the table wins
RECURSIVE LastKeywordMatch(_, _, _)
LastKeywordMatch(name, filename_lower, i) ==
    IF i > Len(type_mappings) THEN FallbackName(name)
    ELSE LET j == Len(type_mappings) + 1 - i
         IN IF Contains(filename_lower, type_mappings[j].keyword)
            THEN type_mappings[j].json_key
            ELSE LastKeywordMatch(name, filename_lower, i + 1)

\* the for loop of lines 89-91 from table position i on, then the fallback
RECURSIVE FirstKeywordMatch(_, _, _)
FirstKeywordMatch(name, filename_lower, i) ==
    IF i > Len(type_mappings) THEN FallbackName(name)
    ELSE IF Contains(filename_lower, type_mappings[i].keyword)
         THEN type_mappings[i].json_key
         ELSE FirstKeywordMatch(name, filename_lower, i + 1)

\* a mutated classifier: the keywords are looked up in the filename as given
detect_case_sensitive(name) == FirstKeywordMatch(name, name, 1)

detect_artifact_type(name) == FirstKeywordMatch(name, lower(name), 1)

(***************************************************************************)
(* DataFrames.  A cell is [t, s, n]: t its type, s the characters of a     *)
(* str, n the value of an int or a bool (0, 1), or a float in tenths.      *)
(* A frame is [columns, data]: the column names in order and one function  *)
(* (column name -> cell) per row.                                          *)
(***************************************************************************)
NaN == [t |-> "nan", s |-> <<>>, n |-> 0]
None == [t |-> "none", s |-> <<>>, n |-> 0]
StrCell(chars) == [t |-> "str", s |-> chars, n |-> 0]
IntCell(k) == [t |-> "int", s |-> <<>>, n |-> k]
FloatCell(tenths) == [t |-> "float", s |-> <<>>, n |-> tenths]
BoolCell(b) == [t |-> "bool", s |-> <<>>, n |-> IF b THEN 1 ELSE 0]

\* pd.notna(x)
notna(x) == x.t \notin {"nan", "none"}

DigitChar == <<"0", "1", "2", "3", "4", "5", "6", "7", "8", "9">>
DigitValue(c) == CHOOSE d \in 0..9 : DigitChar[d + 1] = c

\* str(n) of a Python int
RECURSIVE NatToStr(_)
NatToStr(k) ==
    IF k < 10 THEN <<DigitChar[k + 1]>>
    ELSE NatToStr(k \div 10) \o <<DigitChar[(k % 10) + 1]>>

IntToStr(k) == IF k < 0 THEN <<"-">> \o NatToStr(-k) ELSE NatToStr(k)

\* str.strip() of blanks
RECURSIVE Strip(_)
Strip(s) ==
    IF s # <<>> /\ Head(s) = " " THEN Strip(Tail(s))
    ELSE IF s # <<>> /\ s[Len(s)] = " " THEN Strip(SubSeq(s, 1, Len(s) - 1))
    ELSE s

RECURSIVE DigitsValue(_, _)
DigitsValue(s, acc) ==
    IF s = <<>> THEN acc
    ELSE IF Head(s) = "_" THEN DigitsValue(Tail(s), acc)
    ELSE DigitsValue(Tail(s), 10 * acc + DigitValue(Head(s)))

\* int(s) of a str: blanks around, a sign, digits with single underscores
\* between them; anything else raises ValueError
ParseInt(s) ==
    LET stripped == Strip(s)
        signed == stripped # <<>> /\ stripped[1] \in {"+", "-"}
        body == IF signed THEN Tail(stripped) ELSE stripped
        valid == /\ body # <<>>
                 /\ \A i \in 1..Len(body) : body[i] \in Digits \cup {"_"}
                 /\ body[1] # "_"
                 /\ body[Len(body)] # "_"
                 /\ \A i \in 1..(Len(body) - 1) : ~(body[i] = "_" /\ body[i + 1] = "_")
        magnitude == DigitsValue(body, 0)
    IN IF ~valid THEN [raised |-> TRUE, n |-> 0]
       ELSE [raised |-> FALSE,
             n |-> IF signed /\ stripped[1] = "-" THEN -magnitude ELSE magnitude]

\* int(x): a float is truncated towards zero
int(x) ==
    CASE x.t = "str" -> ParseInt(x.s)
      [] x.t = "float" -> [raised |-> FALSE,
                           n |-> IF x.n >= 0 THEN x.n \div 10 ELSE -((-x.n) \div 10)]
      [] x.t \in {"int", "bool"} -> [raised |-> FALSE, n |-> x.n]
      [] OTHER -> [raised |-> TRUE, n |-> 0]

\* lambda x: str(int(x)) if pd.notna(x) and x != '' else None   (lines 41-43)
PhoneFix(x) ==
    IF notna(x) /\ x # StrCell(<<>>)
    THEN [raised |-> int(x).raised, cell |-> StrCell(IntToStr(int(x).n))]
    ELSE [raised |-> FALSE, cell |-> None]

K_week == <<"w","e","e","k">>
K_id == <<"i","d">>
K_underscore_id == <<"_","i","d">>
K_phone == <<"p","h","o","n","e">>
K_contact == <<"c","o","n","t","a","c","t">>
K_number == <<"n","u","m","b","e","r">>

\* a mutated test of line 33: only the name 'id' as written counts
IsIdColumnExact(col) == EndsWith(col, K_underscore_id) \/ col = K_id

\* col.endswith('_id') or col.lower() == 'id'   (line 33)
IsIdColumn(col) == EndsWith(col, K_underscore_id) \/ lower(col) = K_id

\* any(x in col.lower() for x in ['phone', 'contact', 'number'])   (line 39)
IsPhoneLike(col) ==
    \E x \in {K_phone, K_contact, K_number} : Contains(lower(col), x)

SeqToSet(q) == {q[i] : i \in 1..Len(q)}

\* df.drop(names, axis=1)
DropColumns(frame, names) ==
    LET Keep(c) == c \notin names
        kept == SelectSeq(frame.columns, Keep)
    IN [columns |-> kept,
        data |-> [i \in 1..Len(frame.data) |-> [c \in SeqToSet(kept) |-> frame.data[i][c]]]]

\* a column's dtype is bool: it has rows and every cell is a bool
IsBoolDtype(frame, col) ==
    /\ frame.data # <<>>
    /\ \A i \in 1..Len(frame.data) : frame.data[i][col].t = "bool"

\* a mutated map: booleans become 1 and 0
MapBoolToInt(x) == IF x.t = "bool" THEN IntCell(x.n) ELSE IF x.t = "none" THEN x ELSE NaN

\* Series.map({True: True, False: False, None: None}) on one cell   (line 50)
MapBool(x) == IF x.t \in {"bool", "none"} THEN x ELSE NaN

\* a mutated replacement: NaN is left in place
KeepNaN(x) == x

\* df.replace({np.nan: None}) on one cell   (line 46)
ReplaceNaN(x) == IF x = NaN THEN None ELSE x

\* clean_dataframe: [raised, columns, data]
clean_dataframe(frame) ==
    LET no_week == IF K_week \in SeqToSet(frame.columns)
                   THEN DropColumns(frame, {K_week})
                   ELSE frame
        id_columns == {c \in SeqToSet(no_week.columns) : IsIdColumn(c)}
        no_ids == IF id_columns # {} THEN DropColumns(no_week, id_columns) ELSE no_week
        cols == SeqToSet(no_ids.columns)
        phone_cols == {c \in cols : IsPhoneLike(c)}
        raised == \E i \in 1..Len(no_ids.data) :
                      \E c \in phone_cols : PhoneFix(no_ids.data[i][c]).raised
        fixed == [i \in 1..Len(no_ids.data) |->
                     [c \in cols |-> IF c \in phone_cols
                                     THEN PhoneFix(no_ids.data[i][c]).cell
                                     ELSE no_ids.data[i][c]]]
        replaced == [i \in 1..Len(fixed) |->
                        [c \in cols |-> ReplaceNaN(fixed[i][c])]]
        as_frame == [columns |-> no_ids.columns, data |-> replaced]
        mapped == [i \in 1..Len(replaced) |->
                      [c \in cols |-> IF IsBoolDtype(as_frame, c)
                                      THEN MapBool(replaced[i][c])
                                      ELSE replaced[i][c]]]
    IN IF raised
       THEN [raised |-> TRUE, columns |-> <<>>, data |-> <<>>]
       ELSE [raised |-> FALSE, columns |-> no_ids.columns, data |-> mapped]

\* {k: v for k, v in row.items() if v is not None}   (line 59)
CompactRow(row) == [k \in {c \in DOMAIN row : row[c] # None} |-> row[k]]

\* a mutated comprehension: rows left with no value are skipped
CompactRowsSkippingEmpty(data) ==
    LET NonEmpty(r) == DOMAIN r # {}
    IN SelectSeq([i \in 1..Len(data) |-> CompactRow(data[i])], NonEmpty)

\* the list comprehension of lines 58-61 over df_clean.to_dict(orient='records')
CompactRows(data) == [i \in 1..Len(data) |-> CompactRow(data[i])]

\* convert_to_compact_array: [raised, value]
convert_to_compact_array(frame) ==
    LET cleaned == clean_dataframe(frame)
    IN IF cleaned.raised
       THEN [raised |-> TRUE, value |-> <<>>]
       ELSE [raised |-> FALSE, value |-> CompactRows(cleaned.data)]

(***************************************************************************)
(* Filenames the classifier is applied to: up to MaxParts fragments.       *)
(***************************************************************************)
Fragments ==
    { <<"J","o","r","d","a","n"," ","R","e","i","d">>,
      Dash,
      <<"C","o","n","t","a","c","t","s">>,
      <<"C","a","l","e","n","d","a","r">>,
      <<"e","m","a","i","l">>,
      <<"m","e","s","s","a","g","e","s">>,
      <<"N","o","t","e","s">>,
      <<"L","L","M","_","C","o","n","v","o","s">>,
      <<"c","o","n","v","e","r","s","a","t","i","o","n","s">>,
      <<"h","e","a","l","t","h","_">>,
      <<"S","l","e","e","p">>,
      <<"a","c","t","i","v","i","t","i","e","s">>,
      <<"n","u","t","r","i","t","i","o","n">>,
      DotCsv,
      <<".","C","S","V">>,
      <<"r","a","n","d","o","m","_","e","x","p","o","r","t">>,
      <<"W","e","i","r","d"," ","T","h","i","n","g","!">> }

RECURSIVE Concat(_)
Concat(parts) == IF parts = <<>> THEN <<>> ELSE Head(parts) \o Concat(Tail(parts))

Filenames == { Concat(parts) : parts \in UNION { [1..n -> Fragments] : n \in 1..MaxParts } }

ClassifyInit ==
    /\ filename \in Filenames
    /\ artifact_type = NoValue

\* artifact_type = detect_artifact_type(file.name)
Detect ==
    /\ artifact_type = NoValue
    /\ artifact_type' = detect_artifact_type(filename)
    /\ UNCHANGED <<filename, nvars, rvars>>

(***************************************************************************)
(* DataFrames the normalizer is applied to: up to MaxCols columns of the   *)
(* pool, in the pool's order, and up to MaxRows rows.  Each column draws   *)
(* its cells from the values of its dtype: int64, float64 (NaN for a       *)
(* missing cell), bool, or object (str, NaN).                              *)
(***************************************************************************)
ColumnPool ==
    << [name |-> K_week, values |-> {IntCell(1)}],
       [name |-> K_id, values |-> {IntCell(7)}],
       [name |-> <<"I","D">>, values |-> {IntCell(7)}],
       [name |-> <<"u","s","e","r","_","i","d">>, values |-> {StrCell(<<"u","1">>)}],
       [name |-> <<"P","h","o","n","e">>,
        values |-> {FloatCell(5550), FloatCell(-127), NaN}],
       [name |-> <<"c","o","n","t","a","c","t","_","n","a","m","e">>,
        values |-> {StrCell(<<"A","l">>), NaN}],
       [name |-> <<"N","u","m","b","e","r">>,
        values |-> {StrCell(<<"4","2">>), StrCell(<<"0","0","7">>)}],
       [name |-> <<"n","a","m","e">>, values |-> {StrCell(<<"A","l">>), NaN}],
       [name |-> <<"a","c","t","i","v","e">>, values |-> {BoolCell(TRUE), BoolCell(FALSE)}],
       [name |-> <<"a","g","e">>, values |-> {IntCell(30)}] >>

PoolPicks == {p \in SUBSET (1..Len(ColumnPool)) : p # {} /\ Cardinality(p) <= MaxCols}

PickColumns(p) ==
    LET Picked(i) == i \in p
        positions == SelectSeq([i \in 1..Len(ColumnPool) |-> i], Picked)
    IN [k \in 1..Len(positions) |-> ColumnPool[positions[k]].name]

PickRows(p) ==
    LET names == {ColumnPool[i].name : i \in p}
        ValuesOf(c) == (CHOOSE i \in p : ColumnPool[i].name = c)
        cells == UNION {ColumnPool[i].values : i \in p}
    IN {r \in [names -> cells] : \A c \in names : r[c] \in ColumnPool[ValuesOf(c)].values}

NormalizeInit ==
    /\ \E p \in PoolPicks : \E n \in 0..MaxRows : \E d \in [1..n -> PickRows(p)] :
           df = [columns |-> PickColumns(p), data |-> d]
    /\ df_clean = NoValue
    /\ records = NoValue
    /\ norm_state = "input"

\* convert_to_compact_array(df) returns
NormalizeReturns ==
    /\ norm_state = "input"
    /\ ~convert_to_compact_array(df).raised
    /\ df_clean' = [columns |-> clean_dataframe(df).columns,
                    data |-> clean_dataframe(df).data]
    /\ records' = convert_to_compact_array(df).value
    /\ norm_state' = "returned"
    /\ UNCHANGED <<df, cvars, rvars>>

\* convert_to_compact_array(df) raises (ValueError of int())
NormalizeRaises ==
    /\ norm_state = "input"
    /\ convert_to_compact_array(df).raised
    /\ norm_state' = "raised"
    /\ UNCHANGED <<df, df_clean, records, cvars, rvars>>

(***************************************************************************)
(* The Generate JSON handler (lines 127-220).  An uploaded file is         *)
(* [name, parses, frame]: pd.read_csv raises on it, or returns frame.      *)
(***************************************************************************)
UploadNames ==
    { <<"C","o","n","t","a","c","t","s",".","c","s","v">>,
      <<"m","y"," ","c","o","n","t","a","c","t","s",".","c","s","v">>,
      <<"S","l","e","e","p",".","c","s","v">> }

C_name == <<"n","a","m","e">>
C_Phone == <<"P","h","o","n","e">>
C_contact_name == <<"c","o","n","t","a","c","t","_","n","a","m","e">>

UploadContents ==
    { [parses |-> TRUE,
       frame |-> [columns |-> <<C_name, C_Phone>>,
                  data |-> << [c \in {C_name, C_Phone} |->
                                  IF c = C_name THEN StrCell(<<"A","l">>)
                                  ELSE FloatCell(5550)] >>]],
      [parses |-> TRUE,
       frame |-> [columns |-> <<C_name>>,
                  data |-> << [c \in {C_name} |-> StrCell(<<"B","o">>)] >>]],
      [parses |-> TRUE,
       frame |-> [columns |-> <<C_contact_name>>,
                  data |-> << [c \in {C_contact_name} |-> StrCell(<<"A","l">>)] >>]],
      [parses |-> FALSE, frame |-> [columns |-> <<>>, data |-> <<>>]] }

Uploads ==
    { [name |-> u, parses |-> c.parses, frame |-> c.frame] :
          u \in UploadNames, c \in UploadContents }

\* a mutated assignment: an existing key keeps its value
DictSetKeepFirst(d, key, value) ==
    IF \E i \in 1..Len(d) : d[i].key = key
    THEN d
    ELSE Append(d, [key |-> key, value |-> value])

\* d[key] = value on a dict kept in insertion order   (line 140)
DictSet(d, key, value) ==
    IF \E i \in 1..Len(d) : d[i].key = key
    THEN [i \in 1..Len(d) |-> IF d[i].key = key THEN [key |-> key, value |-> value] ELSE d[i]]
    ELSE Append(d, [key |-> key, value |-> value])

\* pd.read_csv(file) followed by convert_to_compact_array raises
FileRaises(file) == ~file.parses \/ convert_to_compact_array(file.frame).raised

\* the button is shown once files are uploaded; the click starts the loop
RequestInit ==
    /\ artifact_files \in UNION { [1..n -> Uploads] : n \in 1..MaxFiles }
    /\ idx = 1
    /\ persona_json = <<>>
    /\ emitted = NoDocument
    /\ loaded = <<>>
    /\ pc = "loop"

\* one iteration of the loop of lines 133-142 that completes
ProcessFileLoads ==
    /\ pc = "loop"
    /\ idx <= Len(artifact_files)
    /\ ~FileRaises(artifact_files[idx])
    /\ persona_json' =
          DictSet(persona_json,
                  detect_artifact_type(artifact_files[idx].name),
                  convert_to_compact_array(artifact_files[idx].frame).value)
    /\ loaded' = Append(loaded, idx)
    /\ idx' = idx + 1
    /\ UNCHANGED <<artifact_files, emitted, pc, cvars, nvars>>

\* a mutated iteration: a file that raises is skipped and the loop goes on
ProcessFileSkips ==
    /\ pc = "loop"
    /\ idx <= Len(artifact_files)
    /\ FileRaises(artifact_files[idx])
    /\ idx' = idx + 1
    /\ UNCHANGED <<artifact_files, persona_json, emitted, loaded, pc, cvars, nvars>>

\* one iteration that raises: control leaves the try block for the handler of
\* lines 218-220
ProcessFileRaises ==
    /\ pc = "loop"
    /\ idx <= Len(artifact_files)
    /\ FileRaises(artifact_files[idx])
    /\ pc' = "error"
    /\ UNCHANGED <<artifact_files, idx, persona_json, emitted, loaded, cvars, nvars>>

\* after the loop: json.dumps, the preview, the download buttons (lines 145-210)
EmitDocument ==
    /\ pc = "loop"
    /\ idx > Len(artifact_files)
    /\ emitted' = [shown |-> TRUE, document |-> persona_json]
    /\ pc' = "emitted"
    /\ UNCHANGED <<artifact_files, idx, persona_json, loaded, cvars, nvars>>

ClassifyIdle == filename = <<>> /\ artifact_type = NoValue
NormalizeIdle == df = NoValue /\ df_clean = NoValue /\ records = NoValue /\ norm_state = "idle"
RequestIdle ==
    /\ artifact_files = <<>>
    /\ idx = 0
    /\ persona_json = <<>>
    /\ emitted = NoDocument
    /\ loaded = <<>>
    /\ pc = "idle"

InitClassify == ClassifyInit /\ NormalizeIdle /\ RequestIdle
NextClassify == Detect
SpecClassify == InitClassify /\ [][NextClassify]_vars

InitNormalize == ClassifyIdle /\ NormalizeInit /\ RequestIdle
NextNormalize == NormalizeReturns \/ NormalizeRaises
SpecNormalize == InitNormalize /\ [][NextNormalize]_vars

Init == ClassifyIdle /\ NormalizeIdle /\ RequestInit
Next == ProcessFileLoads \/ ProcessFileRaises \/ EmitDocument
Spec == Init /\ [][Next]_vars

(***************************************************************************)
(* Properties of the classifier (checked under SpecClassify).              *)
(***************************************************************************)
Classified == artifact_type # NoValue

\* the table as the specification declares it: keyword, CategoryKey, in order
DeclaredTable ==
    << <<K_contacts, K_contacts>>, <<K_calendar, K_calendar>>, <<K_email, K_email>>,
       <<K_messages, K_messages>>, <<K_notes, K_notes>>,
       <<K_llm_convos, K_conversations>>, <<K_conversations, K_conversations>>,
       <<K_health_sleep, K_health_sleep>>,
       <<K_health_activities, K_health_activities>>,
       <<K_health_nutrition, K_health_nutrition>>,
       <<K_sleep, K_health_sleep>>, <<K_activities, K_health_activities>>,
       <<K_nutrition, K_health_nutrition>> >>

\* the table positions whose keyword occurs in lowered
DeclaredHits(lowered) ==
    { i \in 1..Len(DeclaredTable) : Contains(lowered, DeclaredTable[i][1]) }

\* C1: the result is the CategoryKey of the first entry, in the declared table
\* order, whose keyword is a substring of the lower-cased filename.
C1_FirstDeclaredKeywordWins ==
    Classified =>
        LET hits == DeclaredHits(lower(filename))
        IN \A i \in hits :
               (\A j \in hits : i <= j) => artifact_type = DeclaredTable[i][2]

\* C1 witness: a classified filename holding two keywords of different
\* CategoryKeys, the later one of the table nearer the front of the filename.
C1_Witness ==
    /\ Classified
    /\ \E i, j \in DeclaredHits(lower(filename)) :
          /\ i < j
          /\ DeclaredTable[i][2] # DeclaredTable[j][2]
          /\ MatchesAt(lower(filename), DeclaredTable[j][1], 1)
          /\ artifact_type = DeclaredTable[i][2]

\* the fallback key as C2 describes it: only a trailing extension is removed,
\* whatever its letter case
ClaimedStripExtension(name) ==
    IF EndsWith(lower(name), DotCsv) THEN SubSeq(name, 1, Len(name) - Len(DotCsv)) ELSE name

ClaimedAfterLastDash(s) ==
    IF ~Contains(s, Dash) THEN s
    ELSE LET last == CHOOSE i \in 1..Len(s) :
                         /\ MatchesAt(s, Dash, i)
                         /\ \A j \in (i + 1)..Len(s) : ~MatchesAt(s, Dash, j)
         IN Drop(s, last + Len(Dash) - 1)

ClaimedFallback(name) ==
    Sanitize(ClaimedAfterLastDash(lower(ClaimedStripExtension(name))))

\* C2: when no table keyword occurs in the filename, the result is the filename
\* with its trailing .csv extension (of any letter case) stripped, lower-cased,
\* cut to what follows the last " - ", every character outside [a-z0-9_] made "_".
C2_FallbackStripsTrailingExtension ==
    (Classified /\ DeclaredHits(lower(filename)) = {})
        => artifact_type = ClaimedFallback(filename)

\* C9 as stated: every filename containing "sleep" is classified health_sleep.
C9_SleepAlwaysHealthSleep ==
    (Classified /\ Contains(lower(filename), K_sleep))
        => artifact_type = K_health_sleep

\* the keywords the table tests before "sleep" that name another CategoryKey
KeywordsBeforeSleep ==
    { K_contacts, K_calendar, K_email, K_messages, K_notes, K_llm_convos,
      K_conversations, K_health_activities, K_health_nutrition }

\* C9 (amended): a filename containing "sleep" (in any letter case) and none of
\* the keywords tested earlier for another CategoryKey is classified health_sleep.
C9_SleepWithoutEarlierKeyword ==
    Classified =>
        LET lowered == lower(filename)
        IN ( /\ Contains(lowered, K_sleep)
             /\ \A k \in KeywordsBeforeSleep : ~Contains(lowered, k) )
               => artifact_type = K_health_sleep

\* C9 witness: "Sleep" not preceded by "health_", classified health_sleep.
C9_Witness ==
    /\ Classified
    /\ Contains(lower(filename), K_sleep)
    /\ ~Contains(filename, K_sleep)
    /\ ~Contains(lower(filename), K_health_sleep)
    /\ artifact_type = K_health_sleep

(***************************************************************************)
(* Properties of the normalizer (checked under SpecNormalize).             *)
(***************************************************************************)
Returned == norm_state = "returned"
InputColumns == SeqToSet(df.columns)
RowIndexes == 1..Len(df.data)

\* the columns the specification drops: `week`, `id` in any case, `*_id`
ClaimedDropped(col) == col = K_week \/ lower(col) = K_id \/ EndsWith(col, K_underscore_id)
ClaimedRemaining == {c \in InputColumns : ~ClaimedDropped(c)}

IsNull(x) == x = None \/ x = NaN
IsMissing(col, x) == ~notna(x) \/ (IsPhoneLike(col) /\ x = StrCell(<<>>))

\* C4: every compact Record's keys are columns of the dataset other than
\* `week`, `id` (any case) and `*_id`, and no key of a Record has a null value.
C4_CompactKeysRemainingAndNonNull ==
    Returned =>
        \A i \in 1..Len(records) :
            /\ DOMAIN records[i] \subseteq ClaimedRemaining
            /\ \A k \in DOMAIN records[i] : ~IsNull(records[i][k])

\* C4 witness: a dataset with an `ID` column (upper case) and a missing cell in
\* a remaining column, normalized into a Record without either key.
C4_Witness ==
    /\ Returned
    /\ \E c \in InputColumns : c # K_id /\ lower(c) = K_id
    /\ \E i \in 1..Len(records) : \E c \in ClaimedRemaining :
          df.data[i][c] = NaN /\ c \notin DOMAIN records[i]

IsIntegerString(x) ==
    /\ x.t = "str"
    /\ x.s # <<>>
    /\ LET digits == IF x.s[1] = "-" THEN Tail(x.s) ELSE x.s
       IN digits # <<>> /\ \A j \in 1..Len(digits) : digits[j] \in Digits

\* C5: normalization never fails on a phone / contact / number column: every
\* non-missing cell becomes an integer-valued string (a float truncated), every
\* missing cell becomes null (its key omitted from the compact Record).
C5_PhoneCoercionNeverFails ==
    /\ norm_state # "raised"
    /\ Returned =>
          \A i \in RowIndexes : \A c \in {k \in ClaimedRemaining : IsPhoneLike(k)} :
              IF IsMissing(c, df.data[i][c])
              THEN c \notin DOMAIN records[i]
              ELSE /\ c \in DOMAIN records[i]
                   /\ IsIntegerString(records[i][c])
                   /\ df.data[i][c].t = "float" =>
                         records[i][c].s = IntToStr(int(df.data[i][c]).n)

NoMissingValues == \A i \in RowIndexes : \A c \in InputColumns : notna(df.data[i][c])
NoExcludedColumns == \A c \in InputColumns : ~ClaimedDropped(c)

\* C7 as stated: a dataset with no missing values and no excluded columns is
\* normalized to itself: each Record is its row, same values and same types.
C7_NormalizedDatasetUnchanged ==
    (Returned /\ NoMissingValues /\ NoExcludedColumns) => records = df.data

\* the integer strings normalization itself produces: str(int(x))
IsCanonicalIntegerString(x) ==
    /\ IsIntegerString(x)
    /\ LET digits == IF x.s[1] = "-" THEN Tail(x.s) ELSE x.s
       IN /\ Len(digits) > 1 => digits[1] # "0"
          /\ x.s[1] = "-" => digits # <<"0">>

PhoneCellsCanonical ==
    \A i \in RowIndexes : \A c \in InputColumns :
        IsPhoneLike(c) => IsCanonicalIntegerString(df.data[i][c])

\* C7 (amended): a dataset with no missing values, no excluded columns and, in
\* its phone / contact / number columns, only the integer strings normalization
\* produces is normalized to itself: each Record is its row, value and type.
C7_CanonicalDatasetUnchanged ==
    (Returned /\ NoMissingValues /\ NoExcludedColumns /\ PhoneCellsCanonical)
        => records = df.data

\* C7 witness: such a dataset with a phone-like column, a boolean column and a
\* row, normalized.
C7_Witness ==
    /\ Returned /\ NoMissingValues /\ NoExcludedColumns /\ PhoneCellsCanonical
    /\ df.data # <<>>
    /\ \E c \in InputColumns : IsPhoneLike(c)
    /\ \E c \in InputColumns : df.data[1][c].t = "bool"
    /\ records = df.data

C10_CompactPreservesRows ==
    Returned =>
        /\ Len(records) = Len(df.data)
        /\ \A i \in RowIndexes :
              /\ DOMAIN records[i] =
                    {c \in ClaimedRemaining : ~IsMissing(c, df.data[i][c])}
              /\ \A c \in DOMAIN records[i] :
                    ~IsPhoneLike(c) => records[i][c] = df.data[i][c]

\* C10 witness: two rows, one with every remaining cell missing, which gives
\* the empty Record, the other giving a Record with a key.
C10_Witness ==
    /\ Returned
    /\ Len(df.data) = 2
    /\ ClaimedRemaining # {}
    /\ \E i, j \in RowIndexes :
          /\ \A c \in ClaimedRemaining : df.data[i][c] = NaN
          /\ DOMAIN records[i] = {}
          /\ DOMAIN records[j] # {}

(***************************************************************************)
(* Properties of the Generate JSON handler (checked under Spec).           *)
(***************************************************************************)
FilePositions == 1..Len(artifact_files)
KeyOfFile(i) == detect_artifact_type(artifact_files[i].name)
NormalizationOfFile(i) == convert_to_compact_array(artifact_files[i].frame).value
LastFileOfKey(k) ==
    CHOOSE i \in FilePositions :
        KeyOfFile(i) = k /\ \A j \in FilePositions : KeyOfFile(j) = k => j <= i

\* C3: in the emitted document every CategoryKey of an uploaded file has one
\* entry, the normalization of the last uploaded file classified to that key.
C3_LastWriteWins ==
    emitted.shown =>
        LET doc == emitted.document
        IN /\ {doc[n].key : n \in 1..Len(doc)} = {KeyOfFile(i) : i \in FilePositions}
           /\ \A n, m \in 1..Len(doc) : doc[n].key = doc[m].key => n = m
           /\ \A n \in 1..Len(doc) :
                 doc[n].value = NormalizationOfFile(LastFileOfKey(doc[n].key))

\* C3 witness: two files of different names and one CategoryKey whose
\* normalizations differ; the emitted entry is the second file's.
C3_Witness ==
    /\ emitted.shown
    /\ Len(artifact_files) = 2
    /\ artifact_files[1].name # artifact_files[2].name
    /\ KeyOfFile(1) = KeyOfFile(2)
    /\ NormalizationOfFile(1) # NormalizationOfFile(2)
    /\ emitted.document = << [key |-> KeyOfFile(2), value |-> NormalizationOfFile(2)] >>

\* C6: a document is emitted only when every uploaded file was parsed and
\* normalized without error; when a file fails, no document is emitted, however
\* many files were loaded before it, and no file after it is processed.
C6_FailureAbortsRequest ==
    /\ emitted.shown =>
          /\ \A i \in FilePositions : ~FileRaises(artifact_files[i])
          /\ loaded = [i \in FilePositions |-> i]
    /\ pc = "error" =>
          /\ ~emitted.shown
          /\ FileRaises(artifact_files[idx])
          /\ loaded = [i \in 1..(idx - 1) |-> i]

\* C6 witness: the second of three files failed after the first was loaded; no
\* document, and the third file untouched.
C6_Witness ==
    /\ pc = "error"
    /\ Len(artifact_files) = 3
    /\ idx = 2
    /\ loaded = <<1>>
    /\ persona_json # <<>>
    /\ ~emitted.shown

====
